---- MODULE Spec2Model ----
(***************************************************************************)
(* A model of the EC2 instance scheduler of src/function.py.               *)
(*                                                                         *)
(* Strings are sequences of one-character strings, so that split, strip,   *)
(* lower, the regular expressions and int() are computed on characters.    *)
(* An instant is a number of seconds counted from a Sunday 00:00:00 UTC;   *)
(* a timezone is a fixed offset in seconds (the modelled zones have no     *)
(* daylight saving time).                                                  *)
(***************************************************************************)
EXTENDS Integers, Sequences, FiniteSets, TLC

VARIABLES
    inventory,      \* EC2_RESOURCE.instances.all(): a sequence of instances
    instances,      \* lambda_handler's list of (instance, start_tag, stop_tag)
    pc,             \* lambda_handler's position: "start", "loop", "done", "crashed"
                    \* ("idle" while the evaluator runs on its own)
    idx,            \* number of list entries the for loop has taken
    clock,          \* what arrow.utcnow() returns now
    ticks,          \* how often the clock has advanced since the first state
    calls,          \* the actuator calls issued so far, in order
    outcome,        \* per list position: what the loop body did
    start_time,     \* get_desired_state's first argument (evaluator runs)
    stop_time,      \* get_desired_state's second argument (evaluator runs)
    utc_now,        \* the instant of an evaluator run
    result          \* what get_desired_state did on (start_time, stop_time, utc_now)

vars == <<inventory, instances, pc, idx, clock, ticks, calls, outcome,
          start_time, stop_time, utc_now, result>>

batch_vars == <<inventory, instances, pc, idx, clock, ticks, calls, outcome>>
eval_vars == <<start_time, stop_time, utc_now, result>>

(***************************************************************************)
(* Bounds of the model.                                                    *)
(***************************************************************************)
MaxInstances == 3       \* instances in the inventory
MaxSegments == 8        \* longest tag value, in segments
MaxTicks == 1           \* clock advances during one invocation
MaxInvocations == 3     \* invocations in a row

(***************************************************************************)
(* Python values.                                                          *)
(***************************************************************************)
None == [none |-> TRUE]
Return(v) == [kind |-> "return", value |-> v]
Raise(e) == [kind |-> "raise", value |-> e]

UpperToLower ==
    [A |-> "a", B |-> "b", C |-> "c", D |-> "d", E |-> "e", F |-> "f",
     G |-> "g", H |-> "h", I |-> "i", J |-> "j", K |-> "k", L |-> "l",
     M |-> "m", N |-> "n", O |-> "o", P |-> "p", Q |-> "q", R |-> "r",
     S |-> "s", T |-> "t", U |-> "u", V |-> "v", W |-> "w", X |-> "x",
     Y |-> "y", Z |-> "z"]

Digits == <<"0", "1", "2", "3", "4", "5", "6", "7", "8", "9">>
DigitChars == {Digits[i] : i \in 1..10}
\* \w
WordChars ==
    {"a", "b", "c", "d", "e", "f", "g", "h", "i", "j", "k", "l", "m",
     "n", "o", "p", "q", "r", "s", "t", "u", "v", "w", "x", "y", "z",
     "A", "B", "C", "D", "E", "F", "G", "H", "I", "J", "K", "L", "M",
     "N", "O", "P", "Q", "R", "S", "T", "U", "V", "W", "X", "Y", "Z",
     "0", "1", "2", "3", "4", "5", "6", "7", "8", "9",
     "_"}
Whitespace == {" "}

\* str.lower()
LowerChar(c) == IF c \in DOMAIN UpperToLower THEN UpperToLower[c] ELSE c

RECURSIVE lower(_)
lower(s) == IF s = <<>> THEN <<>> ELSE <<LowerChar(Head(s))>> \o lower(Tail(s))

\* str.strip()
RECURSIVE lstrip(_)
lstrip(s) ==
    IF s # <<>> /\ Head(s) \in Whitespace THEN lstrip(Tail(s)) ELSE s

RECURSIVE rstrip(_)
rstrip(s) ==
    IF s # <<>> /\ s[Len(s)] \in Whitespace
    THEN rstrip(SubSeq(s, 1, Len(s) - 1)) ELSE s

strip(s) == rstrip(lstrip(s))

\* the parts of s from position `from` on, cut at the positions `at`
RECURSIVE cut(_, _, _)
cut(s, at, from) ==
    LET rest == {p \in at : p >= from}
    IN IF rest = {} THEN <<SubSeq(s, from, Len(s))>>
       ELSE LET p == CHOOSE q \in rest : \A r \in rest : q <= r
            IN <<SubSeq(s, from, p - 1)>> \o cut(s, at, p + 1)

\* str.split(sep) for a one-character separator: the empty string gives [''].
split(s, sep) == cut(s, {i \in 1..Len(s) : s[i] = sep}, 1)

\* re.compile(literal).match(s): the literal at the start of s.
startswith(s, literal) ==
    Len(s) >= Len(literal) /\ SubSeq(s, 1, Len(literal)) = literal

DigitValue(c) == (CHOOSE i \in 1..10 : Digits[i] = c) - 1

RECURSIVE DecimalValue(_)
DecimalValue(s) ==
    IF s = <<>> THEN 0
    ELSE 10 * DecimalValue(SubSeq(s, 1, Len(s) - 1)) + DigitValue(s[Len(s)])

\* int(s): surrounding whitespace and one sign are accepted, then digits only.
int(s) ==
    LET t == strip(s)
        signed == t # <<>> /\ Head(t) \in {"+", "-"}
        d == IF signed THEN Tail(t) ELSE t
    IN IF d = <<>> \/ \E i \in 1..Len(d) : d[i] \notin DigitChars
       THEN Raise("ValueError")
       ELSE Return(IF signed /\ Head(t) = "-"
                   THEN 0 - DecimalValue(d) ELSE DecimalValue(d))

(***************************************************************************)
(* Tag keys and the timezones they name.                                   *)
(***************************************************************************)
starttime == <<"s", "t", "a", "r", "t", "t", "i", "m", "e">>
stoptime == <<"s", "t", "o", "p", "t", "i", "m", "e">>
smtwtfs == <<"s", "m", "t", "w", "t", "f", "s">>
utc == <<"u", "t", "c">>
running == <<"r", "u", "n", "n", "i", "n", "g">>
stopped == <<"s", "t", "o", "p", "p", "e", "d">>
n_a == <<"n", "/", "a">>

NoMatch == [matched |-> FALSE, timezone |-> <<>>]

\* \w+/\w+|UTC under re.IGNORECASE
IsTimezoneGroup(s) ==
    LET parts == split(s, "/")
    IN \/ /\ Len(parts) = 2
          /\ \A k \in 1..2 :
                parts[k] # <<>> /\ \A i \in 1..Len(parts[k]) : parts[k][i] \in WordChars
       \/ lower(s) = utc

\* re.compile('<role>-(?P<timezone>\w+/\w+|UTC)-SMTWTFS', re.IGNORECASE).match(key):
\* neither the role nor the timezone group holds a '-', so the three parts of
\* the pattern are the first three '-'-separated parts of the key; match()
\* anchors at the start only, so anything may follow SMTWTFS.
KeyPattern(role, key) ==
    LET parts == split(key, "-")
    IN IF /\ Len(parts) >= 3
          /\ lower(parts[1]) = role
          /\ IsTimezoneGroup(parts[2])
          /\ startswith(lower(parts[3]), smtwtfs)
       THEN [matched |-> TRUE, timezone |-> parts[2]]
       ELSE NoMatch

START_TAG_KEY(key) == KeyPattern(starttime, key)
STOP_TAG_KEY(key) == KeyPattern(stoptime, key)

TAG_ENCODING ==
    [Sunday |-> 0, Monday |-> 1, Tuesday |-> 2, Wednesday |-> 3,
     Thursday |-> 4, Friday |-> 5, Saturday |-> 6]

(***************************************************************************)
(* Time.  The zones of the model and their offsets from UTC.               *)
(***************************************************************************)
Minute == 60
Hour == 60 * Minute
Day == 24 * Hour

TZ_UTC == <<"U", "T", "C">>
TZ_Tokyo == <<"A", "s", "i", "a", "/", "T", "o", "k", "y", "o">>
TZ_Phoenix == <<"A", "m", "e", "r", "i", "c", "a", "/", "P", "h", "o", "e", "n", "i", "x">>

UtcOffset(time_zone) ==
    CASE time_zone = TZ_UTC -> 0
      [] time_zone = TZ_Tokyo -> 9 * Hour
      [] time_zone = TZ_Phoenix -> 0 - 7 * Hour

\* utc_now.to(time_zone): the local wall clock, in seconds from the epoch Sunday
to(instant, time_zone) == instant + UtcOffset(time_zone)

\* the calendar date of a local time, as a day number
DateOf(local_now) == local_now \div Day

WeekdayNames ==
    <<"Sunday", "Monday", "Tuesday", "Wednesday", "Thursday", "Friday", "Saturday">>

\* local_now.strftime("%A")
strftime_A(local_now) == WeekdayNames[(DateOf(local_now) % 7) + 1]

\* arrow.get(year, month, day, hour, minute, 0, 0, tzinfo)
arrow_get(date, hour, minute) ==
    IF hour \in 0..23 /\ minute \in 0..59
    THEN Return(date * Day + hour * Hour + minute * Minute)
    ELSE Raise("ValueError")

\* a parser that expects HH:MM
get_date_object_Colon(time, local_now) ==
    LET parts == split(time, ":")
    IN IF Len(parts) # 2 THEN Raise("ValueError")
       ELSE LET hour == int(parts[1])
                minute == int(parts[2])
            IN IF hour.kind = "raise" THEN hour
               ELSE IF minute.kind = "raise" THEN minute
               ELSE arrow_get(DateOf(local_now), hour.value, minute.value)

get_date_object(time, local_now) ==
    LET parts == split(time, "h")
    IN IF Len(parts) # 2 THEN Raise("ValueError")     \* hour, minute = ...
       ELSE LET hour == int(parts[1])
                minute == int(parts[2])
            IN IF hour.kind = "raise" THEN hour
               ELSE IF minute.kind = "raise" THEN minute
               ELSE arrow_get(DateOf(local_now), hour.value, minute.value)

\* time['Value'].split('|')[TAG_ENCODING[today]], then strip().lower()
get_todays_schedule_time(time, today) ==
    LET parts == split(time.Value, "|")
    IN IF today \notin DOMAIN TAG_ENCODING THEN Raise("KeyError")
       ELSE IF TAG_ENCODING[today] + 1 > Len(parts) THEN Raise("IndexError")
       ELSE Return(lower(strip(parts[TAG_ENCODING[today] + 1])))

\* a validation that forgets the stop tag
validate_time_tag_StartOnly(start_time_, stop_time_) ==
    IF Len(split(start_time_.Value, "|")) # 7 THEN Raise("ValueError")
    ELSE Return(None)

validate_time_tag(start_time_, stop_time_) ==
    IF Len(split(start_time_.Value, "|")) # 7 THEN Raise("ValueError")
    ELSE IF Len(split(stop_time_.Value, "|")) # 7 THEN Raise("ValueError")
    ELSE Return(None)

get_timezone(start_time_, stop_time_) ==
    IF start_time_ = None \/ stop_time_ = None
    THEN Raise("TypeError")                 \* None['Key']
    ELSE LET start_time_tz == START_TAG_KEY(start_time_.Key)
             stop_time_tz == STOP_TAG_KEY(stop_time_.Key)
         IN IF ~start_time_tz.matched \/ ~stop_time_tz.matched
            THEN Raise("AttributeError")    \* None.group
            ELSE IF start_time_tz.timezone # stop_time_tz.timezone
            THEN Raise("ValueError")
            ELSE Return(start_time_tz.timezone)

\* a pattern without the empty alternative: '^n/a$'
no_schedule_NoEmpty(s) == s = n_a

\* re.compile('^n/a$|$^').match(s)
no_schedule(s) == s = n_a \/ s = <<>>
\* re.compile('running').match(s)
running_all_day(s) == startswith(s, running)
\* re.compile('stopped').match(s)
stopped_all_day(s) == startswith(s, stopped)

\* a window that is open at its end
InWindow_OpenEnd(start_date, local_now, stop_date) ==
    start_date <= local_now /\ local_now < stop_date

\* a window that runs over midnight when it starts after it stops
InWindow_Overnight(start_date, local_now, stop_date) ==
    IF start_date <= stop_date
    THEN start_date <= local_now /\ local_now <= stop_date
    ELSE start_date <= local_now \/ local_now <= stop_date

\* line 110: start_date <= local_now <= stop_date
InWindow(start_date, local_now, stop_date) ==
    start_date <= local_now /\ local_now <= stop_date

\* a comparison that misses the instant itself
Reached_Strict(local_now, date) == local_now > date

\* lines 96 and 103: local_now >= date
Reached(local_now, date) == local_now >= date

\* one-sided rules that say stopped before the start time and running before
\* the stop time
DecideSchedule_BothWays(start_seg, stop_seg, local_now) ==
    IF no_schedule(start_seg) /\ no_schedule(stop_seg)
    THEN Return("none")
    ELSE IF no_schedule(start_seg)
    THEN LET stop_date == get_date_object(stop_seg, local_now)
         IN IF stop_date.kind = "raise" THEN stop_date
            ELSE IF Reached(local_now, stop_date.value)
            THEN Return("stopped") ELSE Return("running")
    ELSE IF no_schedule(stop_seg)
    THEN LET start_date == get_date_object(start_seg, local_now)
         IN IF start_date.kind = "raise" THEN start_date
            ELSE IF Reached(local_now, start_date.value)
            THEN Return("running") ELSE Return("stopped")
    ELSE LET stop_date == get_date_object(stop_seg, local_now)
             start_date == get_date_object(start_seg, local_now)
         IN IF stop_date.kind = "raise" THEN stop_date
            ELSE IF start_date.kind = "raise" THEN start_date
            ELSE IF InWindow(start_date.value, local_now, stop_date.value)
            THEN Return("running") ELSE Return("stopped")

\* lines 90-113: neither segment is a running or stopped literal
DecideSchedule(start_seg, stop_seg, local_now) ==
    IF no_schedule(start_seg) /\ no_schedule(stop_seg)
    THEN Return("none")
    ELSE IF no_schedule(start_seg)
    THEN LET stop_date == get_date_object(stop_seg, local_now)
         IN IF stop_date.kind = "raise" THEN stop_date
            ELSE IF Reached(local_now, stop_date.value)
            THEN Return("stopped") ELSE Return("none")
    ELSE IF no_schedule(stop_seg)
    THEN LET start_date == get_date_object(start_seg, local_now)
         IN IF start_date.kind = "raise" THEN start_date
            ELSE IF Reached(local_now, start_date.value)
            THEN Return("running") ELSE Return("none")
    ELSE LET stop_date == get_date_object(stop_seg, local_now)
             start_date == get_date_object(start_seg, local_now)
         IN IF stop_date.kind = "raise" THEN stop_date
            ELSE IF start_date.kind = "raise" THEN start_date
            ELSE IF InWindow(start_date.value, local_now, stop_date.value)
            THEN Return("running") ELSE Return("stopped")

\* a chain that looks for the stopped literal first
DecideState_StoppedFirst(start_seg, stop_seg, local_now) ==
    IF stopped_all_day(start_seg) \/ stopped_all_day(stop_seg)
    THEN Return("stopped")
    ELSE IF running_all_day(start_seg) \/ running_all_day(stop_seg)
    THEN Return("running")
    ELSE DecideSchedule(start_seg, stop_seg, local_now)

\* lines 80-113, on today's two segments
DecideState(start_seg, stop_seg, local_now) ==
    IF running_all_day(start_seg) \/ running_all_day(stop_seg)
    THEN Return("running")
    ELSE IF stopped_all_day(start_seg) \/ stopped_all_day(stop_seg)
    THEN Return("stopped")
    ELSE DecideSchedule(start_seg, stop_seg, local_now)

\* the weekday of the UTC instant
TodayOf_UTC(instant, time_zone) == strftime_A(instant)

\* the weekday whose segment is read: that of the local time (lines 71, 74)
TodayOf(instant, time_zone) == strftime_A(to(instant, time_zone))

get_desired_state(start_time_, stop_time_, now) ==
    LET time_zone == get_timezone(start_time_, stop_time_)
    IN IF time_zone.kind = "raise" THEN time_zone
       ELSE LET local_now == to(now, time_zone.value)
                today == TodayOf(now, time_zone.value)
                valid == validate_time_tag(start_time_, stop_time_)
            IN IF valid.kind = "raise" THEN valid
               ELSE LET start_seg == get_todays_schedule_time(start_time_, today)
                        stop_seg == get_todays_schedule_time(stop_time_, today)
                    IN IF start_seg.kind = "raise" THEN start_seg
                       ELSE IF stop_seg.kind = "raise" THEN stop_seg
                       ELSE DecideState(start_seg.value, stop_seg.value, local_now)

(***************************************************************************)
(* The inputs of the model: tag keys, tag values and instants.             *)
(***************************************************************************)
\* ''.join, '|'.join, ...
RECURSIVE join(_, _)
join(parts, sep) ==
    IF parts = <<>> THEN <<>>
    ELSE IF Len(parts) = 1 THEN parts[1]
    ELSE parts[1] \o <<sep>> \o join(Tail(parts), sep)

Repeat(x, n) == [i \in 1..n |-> x]

Key_Start_UTC == starttime \o <<"-">> \o TZ_UTC \o <<"-", "S", "M", "T", "W", "T", "F", "S">>
Key_Start_Tokyo ==
    <<"S", "t", "a", "r", "t", "T", "i", "m", "e", "-">> \o TZ_Tokyo
        \o <<"-", "S", "M", "T", "W", "T", "F", "S">>
Key_Start_Phoenix ==
    <<"S", "T", "A", "R", "T", "T", "I", "M", "E", "-">> \o TZ_Phoenix \o <<"-">> \o smtwtfs
Key_Stop_UTC ==
    <<"S", "t", "o", "p", "T", "i", "m", "e", "-">> \o TZ_UTC
        \o <<"-", "S", "M", "T", "W", "T", "F", "S">>
Key_Stop_Tokyo == stoptime \o <<"-">> \o TZ_Tokyo \o <<"-", "S", "M", "T", "W", "T", "F", "S">>
Key_Stop_Phoenix ==
    <<"S", "t", "o", "p", "T", "i", "m", "e", "-">> \o TZ_Phoenix
        \o <<"-", "S", "M", "T", "W", "T", "F", "S", "-", "v", "2">>
Key_Name == <<"N", "a", "m", "e">>

StartKeys == {Key_Start_UTC, Key_Start_Tokyo, Key_Start_Phoenix}
StopKeys == {Key_Stop_UTC, Key_Stop_Tokyo, Key_Stop_Phoenix}

Seg_0900 == <<"0", "9", "h", "0", "0">>
Seg_1300 == <<"1", "3", "H", "0", "0">>
Seg_1700 == <<"1", "7", "h", "0", "0">>
Seg_2500 == <<"2", "5", "h", "0", "0">>
Seg_9am == <<"9", "a", "m">>
Seg_Stopped == <<"S", "t", "o", "p", "p", "e", "d", " ">>
Seg_NA == <<" ", "N", "/", "A">>

\* what a day's segment may hold
Segments == {Seg_0900, Seg_1700, running, Seg_Stopped, n_a, <<>>, Seg_2500, Seg_9am}
\* what the days around it hold
Fillers == {Seg_NA, Seg_1300}

\* Sunday, Tuesday and Thursday hold a; the other days hold b
Week(a, b) == <<a, b, a, b, a, b, b>>

WeekValues == {join(Week(a, b), "|") : a \in Segments, b \in Fillers}
\* values of 0 to MaxSegments segments
ShapeValues ==
    {join(Repeat(running, n), "|") : n \in 0..MaxSegments}
        \cup {join(Repeat(Seg_0900, n), "|") : n \in {6, 7}}

KeyPairs == StartKeys \X StopKeys
OneZoneKeyPairs ==
    {k \in KeyPairs : START_TAG_KEY(k[1]).timezone = STOP_TAG_KEY(k[2]).timezone}

\* week schedules under keys of one zone; values of any length under any keys;
\* one tag missing
TagPairs ==
    {<<[Key |-> k[1], Value |-> v1], [Key |-> k[2], Value |-> v2]>> :
        k \in OneZoneKeyPairs, v1 \in WeekValues, v2 \in WeekValues}
    \cup
    {<<[Key |-> k[1], Value |-> v1], [Key |-> k[2], Value |-> v2]>> :
        k \in KeyPairs, v1 \in ShapeValues, v2 \in ShapeValues}
    \cup
    {<<[Key |-> k1, Value |-> v1], None>> : k1 \in StartKeys, v1 \in ShapeValues}
    \cup
    {<<None, [Key |-> k2, Value |-> v2]>> : k2 \in StopKeys, v2 \in ShapeValues}

At(day, hour, minute, second) == day * Day + hour * Hour + minute * Minute + second

\* Sunday and Saturday (UTC), so that the local date of a zone falls out of the
\* week on either side; the times of day put the local time of each zone
\* around 09h00 and 17h00
Instants ==
    {At(d, t[1], t[2], t[3]) :
        d \in {0, 6},
        t \in {<<0, 0, 0>>, <<8, 59, 0>>, <<9, 0, 0>>, <<16, 0, 0>>,
               <<17, 0, 0>>, <<17, 0, 30>>, <<17, 1, 0>>, <<18, 0, 0>>}}

(***************************************************************************)
(* Evaluator runs: get_desired_state applied to one pair of tags.          *)
(***************************************************************************)
NotRun == [kind |-> "not run", value |-> "none"]

IdleBatch ==
    /\ inventory = <<>>
    /\ instances = <<>>
    /\ pc = "idle"
    /\ idx = 0
    /\ clock = 0
    /\ ticks = 0
    /\ calls = <<>>
    /\ outcome = <<>>

InitEval ==
    /\ IdleBatch
    /\ \E p \in TagPairs : start_time = p[1] /\ stop_time = p[2]
    /\ utc_now \in Instants
    /\ result = NotRun

Evaluate ==
    /\ result = NotRun
    /\ result' = get_desired_state(start_time, stop_time, utc_now)
    /\ UNCHANGED <<start_time, stop_time, utc_now>>
    /\ UNCHANGED batch_vars

NextEval == Evaluate

SpecEval == InitEval /\ [][NextEval]_vars

(***************************************************************************)
(* The inventory and one invocation of lambda_handler.                     *)
(***************************************************************************)
AllWeek(a) == join(Repeat(a, 7), "|")

Tag_Name == [Key |-> Key_Name, Value |-> <<"w", "e", "b">>]
Tag_Start_0900 == [Key |-> Key_Start_UTC, Value |-> AllWeek(Seg_0900)]
Tag_Stop_1700 == [Key |-> Key_Stop_UTC, Value |-> AllWeek(Seg_1700)]
Tag_Start_Short == [Key |-> Key_Start_UTC, Value |-> join(Repeat(Seg_0900, 6), "|")]
Tag_Start_Tokyo == [Key |-> Key_Start_Tokyo, Value |-> AllWeek(Seg_0900)]
Tag_Start_NA == [Key |-> Key_Start_UTC, Value |-> AllWeek(n_a)]
Tag_Stop_NA == [Key |-> Key_Stop_UTC, Value |-> AllWeek(<<>>)]

\* instance.tags: a list of tags, or None, which "not instance.tags" treats as
\* it treats the empty list; <<>> stands for both
Tags_None == <<>>
Tags_Unrelated == <<Tag_Name>>
Tags_StartOnly == <<Tag_Name, Tag_Start_0900>>
Tags_StopOnly == <<Tag_Stop_1700>>
Tags_Office == <<Tag_Stop_1700, Tag_Name, Tag_Start_0900>>
Tags_Short == <<Tag_Start_Short, Tag_Stop_1700>>
Tags_TwoZones == <<Tag_Start_Tokyo, Tag_Stop_1700>>
Tags_NoSchedule == <<Tag_Start_NA, Tag_Stop_NA>>

Instance(state, tags) == [state |-> state, tags |-> tags]

\* the instances an inventory is drawn from: instance.state['Name'] and tags
InstancePool ==
    { Instance("running", Tags_Office),
      Instance("stopped", Tags_Office),
      Instance("pending", Tags_Office),
      Instance("running", Tags_NoSchedule),
      Instance("stopped", Tags_NoSchedule),
      Instance("stopped", Tags_StartOnly),
      Instance("running", Tags_StopOnly),
      Instance("running", Tags_Short),
      Instance("stopped", Tags_TwoZones),
      Instance("running", Tags_Unrelated),
      Instance("stopped", Tags_None) }

Inventories == UNION {[1..n -> InstancePool] : n \in 0..MaxInstances}

\* Monday, half a minute before 09h00 and half a minute before 17h00 UTC
ClockStarts == {At(1, 8, 59, 30), At(1, 16, 59, 30)}
TickStep == Minute

\* the first element of a list that a test picks, or None: next(..., None)
FirstOf(tags, hits) ==
    IF hits = {} THEN None
    ELSE tags[CHOOSE i \in hits : \A j \in hits : i <= j]

\* a lookup that returns the pair without looking whether it found a tag
get_start_stop_tags_Unchecked(instance) ==
    IF instance.tags = <<>> THEN None
    ELSE LET tags == instance.tags
         IN [start_tag |->
                 FirstOf(tags, {i \in 1..Len(tags) : START_TAG_KEY(tags[i].Key).matched}),
             stop_tag |->
                 FirstOf(tags, {i \in 1..Len(tags) : STOP_TAG_KEY(tags[i].Key).matched})]

get_start_stop_tags(instance) ==
    IF instance.tags = <<>> THEN None
    ELSE LET tags == instance.tags
             start_tag ==
                 FirstOf(tags, {i \in 1..Len(tags) : START_TAG_KEY(tags[i].Key).matched})
             stop_tag ==
                 FirstOf(tags, {i \in 1..Len(tags) : STOP_TAG_KEY(tags[i].Key).matched})
         IN IF start_tag = None /\ stop_tag = None THEN None
            ELSE [start_tag |-> start_tag, stop_tag |-> stop_tag]

RECURSIVE scheduled_from(_, _)
scheduled_from(all, n) ==
    IF n > Len(all) THEN <<>>
    ELSE LET tags == get_start_stop_tags(all[n])
         IN IF tags = None THEN scheduled_from(all, n + 1)
            ELSE <<[id |-> n, state |-> all[n].state,
                    start_tag |-> tags.start_tag, stop_tag |-> tags.stop_tag]>>
                 \o scheduled_from(all, n + 1)

get_all_scheduled_instances(all) == scheduled_from(all, 1)

\* the exceptions the except clause of lambda_handler names
Caught == {"KeyError", "IndexError", "ValueError"}

\* a reconciler that starts whatever is not running
Reconcile_NotRunning(current_state, desired_state) ==
    IF current_state # "running" /\ desired_state = "running" THEN "start"
    ELSE IF current_state = "running" /\ desired_state = "stopped" THEN "stop"
    ELSE "nothing"

\* a reconciler that does not look at the observed state
Reconcile_Desired(current_state, desired_state) ==
    IF desired_state = "running" THEN "start"
    ELSE IF desired_state = "stopped" THEN "stop"
    ELSE "nothing"

\* lines 159-166: the actuator call to issue
Reconcile(current_state, desired_state) ==
    IF current_state = "stopped" /\ desired_state = "running" THEN "start"
    ELSE IF current_state = "running" /\ desired_state = "stopped" THEN "stop"
    ELSE "nothing"

Init ==
    /\ inventory \in Inventories
    /\ instances = <<>>
    /\ pc = "start"
    /\ idx = 0
    /\ clock \in ClockStarts
    /\ ticks = 0
    /\ calls = <<>>
    /\ outcome = <<>>
    /\ start_time = None
    /\ stop_time = None
    /\ utc_now = 0
    /\ result = NotRun

\* lines 138-141
lambda_handler_collect ==
    /\ pc = "start"
    /\ instances' = get_all_scheduled_instances(inventory)
    /\ pc' = "loop"
    /\ UNCHANGED <<inventory, idx, clock, ticks, calls, outcome>>
    /\ UNCHANGED eval_vars

\* one pass of the for loop, lines 143-167; the actuator call may fail
lambda_handler_iteration ==
    /\ pc = "loop"
    /\ idx < Len(instances)
    /\ \E entry \in {instances[idx + 1]} :
       \E desired_state \in
              {get_desired_state(entry.start_tag, entry.stop_tag, clock)} :
       LET current_state == entry.state
           report(action, failed) ==
               [id |-> entry.id, current |-> current_state,
                desired |-> desired_state, action |-> action, failed |-> failed]
       IN IF desired_state.kind = "raise"
          THEN IF desired_state.value \in Caught
               THEN /\ outcome' = Append(outcome, report("decode error", FALSE))
                    /\ idx' = idx + 1
                    /\ UNCHANGED <<pc, calls>>
               ELSE /\ outcome' = Append(outcome, report("uncaught", TRUE))
                    /\ pc' = "crashed"
                    /\ UNCHANGED <<idx, calls>>
          ELSE \E action \in {Reconcile(current_state, desired_state.value)} :
               IF action = "nothing"
               THEN /\ outcome' = Append(outcome, report(action, FALSE))
                    /\ idx' = idx + 1
                    /\ UNCHANGED <<pc, calls>>
               ELSE \E raised \in BOOLEAN :
                    /\ calls' = Append(calls, [id |-> entry.id, call |-> action])
                    /\ outcome' = Append(outcome, report(action, raised))
                    /\ IF raised
                       THEN pc' = "crashed" /\ UNCHANGED idx
                       ELSE idx' = idx + 1 /\ UNCHANGED pc
    /\ UNCHANGED <<inventory, instances, clock, ticks>>
    /\ UNCHANGED eval_vars

\* the for loop is exhausted
lambda_handler_return ==
    /\ pc = "loop"
    /\ idx = Len(instances)
    /\ pc' = "done"
    /\ UNCHANGED <<inventory, instances, idx, clock, ticks, calls, outcome>>
    /\ UNCHANGED eval_vars

\* time passes between two passes of the loop
Tick ==
    /\ pc = "loop"
    /\ 0 < idx /\ idx < Len(instances)
    /\ ticks < MaxTicks
    /\ clock' = clock + TickStep
    /\ ticks' = ticks + 1
    /\ UNCHANGED <<inventory, instances, pc, idx, calls, outcome>>
    /\ UNCHANGED eval_vars

Next ==
    \/ lambda_handler_collect
    \/ lambda_handler_iteration
    \/ lambda_handler_return
    \/ Tick

Spec == Init /\ [][Next]_vars

(***************************************************************************)
(* Invocation after invocation: the external trigger calls lambda_handler  *)
(* again and again, and between two invocations EC2 carries out the calls  *)
(* it was sent.  calls and outcome keep the history of all invocations.    *)
(***************************************************************************)
TickPool ==
    { Instance("running", Tags_Office),
      Instance("stopped", Tags_Office),
      Instance("running", Tags_Short) }

TickInventories == {<<a>> : a \in TickPool} \cup {<<a, b>> : a, b \in TickPool}

\* Monday 10h30 and 18h30 UTC, inside and after the 09h00-17h00 window
TriggerStarts == {At(1, 10, 30, 0), At(1, 18, 30, 0)}
TriggerPeriod == 2 * Hour

InitTicks ==
    /\ inventory \in TickInventories
    /\ instances = <<>>
    /\ pc = "start"
    /\ idx = 0
    /\ clock \in TriggerStarts
    /\ ticks = 0
    /\ calls = <<>>
    /\ outcome = <<>>
    /\ start_time = None
    /\ stop_time = None
    /\ utc_now = 0
    /\ result = NotRun

\* the entries of outcome that the invocation that just ended has written
LastInvocation ==
    LET n == idx + (IF pc = "crashed" THEN 1 ELSE 0)
    IN {k \in 1..Len(outcome) : k > Len(outcome) - n}

Sent(id, call) ==
    \E k \in LastInvocation :
        outcome[k].id = id /\ outcome[k].action = call /\ ~outcome[k].failed

\* what instance.state['Name'] may be at the next invocation: the state as it
\* was, or where an accepted start or stop takes the instance
StatesAfter(id) ==
    {inventory[id].state}
        \cup (IF Sent(id, "start") THEN {"pending", "running"} ELSE {})
        \cup (IF Sent(id, "stop") THEN {"stopping", "stopped"} ELSE {})

\* the next trigger: lambda_handler is entered again, one period later
Trigger ==
    /\ pc \in {"done", "crashed"}
    /\ ticks + 1 < MaxInvocations
    /\ \E states \in [DOMAIN inventory -> {"pending", "running", "stopping", "stopped"}] :
          /\ \A id \in DOMAIN inventory : states[id] \in StatesAfter(id)
          /\ inventory' = [id \in DOMAIN inventory |->
                              Instance(states[id], inventory[id].tags)]
    /\ instances' = <<>>
    /\ pc' = "start"
    /\ idx' = 0
    /\ clock' = clock + TriggerPeriod
    /\ ticks' = ticks + 1
    /\ UNCHANGED <<calls, outcome>>
    /\ UNCHANGED eval_vars

NextTicks ==
    \/ lambda_handler_collect
    \/ lambda_handler_iteration
    \/ lambda_handler_return
    \/ Trigger

SpecTicks == InitTicks /\ [][NextTicks]_vars

(***************************************************************************)
(* Properties of one invocation (Spec).  outcome[k] is what the loop did   *)
(* with instances[k].                                                      *)
(***************************************************************************)
DesiredStates == {"running", "stopped", "none"}
ReconcileDecisions == {"start", "stop", "nothing"}

Ended == pc \in {"done", "crashed"}

\* the positions of calls that hold a call for the instance id
CallsFor(id) == {c \in 1..Len(calls) : calls[c].id = id}
Issued(id, call) == \E c \in CallsFor(id) : calls[c].call = call

ExactlyOneTag(entry) == (entry.start_tag = None) # (entry.stop_tag = None)

\* both tags are there, and a value has not 7 segments or the timezones differ
FailsValidation(start_tag, stop_tag) ==
    /\ start_tag # None
    /\ stop_tag # None
    /\ \/ START_TAG_KEY(start_tag.Key).timezone # STOP_TAG_KEY(stop_tag.Key).timezone
       \/ Len(split(start_tag.Value, "|")) # 7
       \/ Len(split(stop_tag.Value, "|")) # 7

\* C1: an instance that carries exactly one of the two schedule tags is
\* evaluated without failure: get_desired_state returns running, stopped or
\* none for it and the loop reaches its reconcile decision.
C1_OneTagIsEvaluated ==
    \A k \in 1..Len(outcome) :
        ExactlyOneTag(instances[k]) =>
            /\ outcome[k].desired.kind = "return"
            /\ outcome[k].desired.value \in DesiredStates
            /\ outcome[k].action \in ReconcileDecisions

\* C2: when get_desired_state fails for an instance because a tag value has
\* not 7 segments or the timezones differ, no call is issued for that
\* instance, and once the invocation has ended every instance of the list
\* has reached its reconcile decision or its logged decode failure.
C2_DecodeFailureIsIsolated ==
    \A k \in 1..Len(outcome) :
        ( /\ FailsValidation(instances[k].start_tag, instances[k].stop_tag)
          /\ outcome[k].desired.kind = "raise" ) =>
            /\ CallsFor(instances[k].id) = {}
            /\ Ended =>
                  /\ Len(outcome) = Len(instances)
                  /\ \A j \in 1..Len(outcome) :
                        outcome[j].action \in ReconcileDecisions \cup {"decode error"}

\* C3: a failed actuator call does not end the invocation: the loop goes on
\* to the instances after it.
C3_ActuatorFailureIsConfined ==
    \A k \in 1..Len(outcome) :
        (outcome[k].action \in {"start", "stop"} /\ outcome[k].failed) =>
            ~(pc = "crashed" /\ Len(outcome) = k)

\* C10: for every instance whose desired state was computed, start is issued
\* exactly when it is observed stopped and desired running, stop exactly when
\* it is observed running and desired stopped, and at most one call is issued;
\* so an observed state other than running and stopped gets no call.
C10_ReconcilerTable ==
    \A k \in 1..Len(outcome) :
        LET id == outcome[k].id
            observed == inventory[id].state
            desired == outcome[k].desired
        IN desired.kind = "return" =>
            /\ Issued(id, "start") <=> (observed = "stopped" /\ desired.value = "running")
            /\ Issued(id, "stop") <=> (observed = "running" /\ desired.value = "stopped")
            /\ Cardinality(CallsFor(id)) <= 1
            /\ \A c \in CallsFor(id) : calls[c].call \in {"start", "stop"}

\* C10's case: a pending instance whose desired state is running or stopped
\* was processed and got no call, and another instance was started
C10_Witness ==
    /\ \E k \in 1..Len(outcome) :
          /\ inventory[outcome[k].id].state = "pending"
          /\ outcome[k].desired \in {Return("running"), Return("stopped")}
          /\ CallsFor(outcome[k].id) = {}
    /\ \E k \in 1..Len(outcome) : Issued(outcome[k].id, "start")

\* both tags are there under keys of one timezone, both values have 7
\* segments, and the segments of the local weekday of the clock (an
\* invocation of the model begins and ends on one local day) are n/a or empty
BothNoSchedule(entry) ==
    /\ entry.start_tag # None
    /\ entry.stop_tag # None
    /\ \E tz \in {START_TAG_KEY(entry.start_tag.Key).timezone} :
       \E start_segs \in {split(entry.start_tag.Value, "|")} :
       \E stop_segs \in {split(entry.stop_tag.Value, "|")} :
          /\ tz = STOP_TAG_KEY(entry.stop_tag.Key).timezone
          /\ Len(start_segs) = 7
          /\ Len(stop_segs) = 7
          /\ \E today \in {(((clock + UtcOffset(tz)) \div Day) % 7) + 1} :
                /\ lower(strip(start_segs[today])) \in {n_a, <<>>}
                /\ lower(strip(stop_segs[today])) \in {n_a, <<>>}

\* C11: when both of today's segments of an instance are n/a or empty, its
\* desired state is none and the invocation has issued no start and no stop
\* for it when it ends, whatever its observed state.  (Written result-first:
\* the tags are read only for a pass that did not end this way.)
C11_NoScheduleIsLeftAlone ==
    Ended =>
        \A k \in 1..Len(outcome) :
            \/ /\ outcome[k].desired = Return("none")
               /\ outcome[k].action = "nothing"
               /\ CallsFor(instances[k].id) = {}
            \/ ~BothNoSchedule(instances[k])

\* C11's case: a running and a stopped instance without a schedule for today
\* were both processed, and another instance of the batch got a call
C11_Witness ==
    /\ \E k \in 1..Len(outcome) :
          BothNoSchedule(instances[k]) /\ outcome[k].current = "running"
    /\ \E k \in 1..Len(outcome) :
          BothNoSchedule(instances[k]) /\ outcome[k].current = "stopped"
    /\ calls # <<>>

\* a tag of the instance has a key that the start or the stop pattern matches
HasScheduleKey(instance) ==
    \E i \in 1..Len(instance.tags) :
        \/ START_TAG_KEY(instance.tags[i].Key).matched
        \/ STOP_TAG_KEY(instance.tags[i].Key).matched

Unscheduled == {i \in DOMAIN inventory : ~HasScheduleKey(inventory[i])}

\* a list of scheduled instances without the ids: what the loop reads of it
Entries(list) ==
    [k \in 1..Len(list) |->
        [state |-> list[k].state,
         start_tag |-> list[k].start_tag, stop_tag |-> list[k].stop_tag]]

\* C14: when an invocation ends, an instance without tags, or without a tag
\* whose key matches the start or the stop pattern, was not on the list, was
\* never evaluated and got no call; and the list the loop starts from is the
\* one that the inventory without these instances gives, so the other
\* instances are processed as if they were not there.
C14_UnscheduledIsSkipped ==
    /\ Ended =>
          \A i \in Unscheduled :
              /\ \A k \in 1..Len(instances) : instances[k].id # i
              /\ \A k \in 1..Len(outcome) : outcome[k].id # i
              /\ CallsFor(i) = {}
    /\ (pc = "loop" /\ idx = 0) =>
          Entries(instances) =
              Entries(get_all_scheduled_instances(SelectSeq(inventory, HasScheduleKey)))

\* C14's case: an instance without tags and one with a Name tag only came
\* before an instance that was started, and the invocation ran to its end
C14_Witness ==
    /\ pc = "done"
    /\ \E i, j, n \in DOMAIN inventory :
          /\ i < n /\ j < n
          /\ inventory[i].tags = Tags_None
          /\ inventory[j].tags = Tags_Unrelated
          /\ Issued(n, "start")

\* the call an instance of the inventory calls for at an instant when it is
\* looked at on its own: lines 52-64, 146-147 and 159-166 for this instance
CallOf(instance, now) ==
    LET tags == get_start_stop_tags(instance)
    IN IF tags = None THEN "nothing"
       ELSE LET desired_state == get_desired_state(tags.start_tag, tags.stop_tag, now)
            IN IF desired_state.kind = "raise" THEN "nothing"
               ELSE Reconcile(instance.state, desired_state.value)

\* the calls of the instances one by one, as a set: the same for every order
\* of the inventory
CallsOneByOne ==
    {[id |-> i, call |-> CallOf(inventory[i], clock)] :
        i \in {j \in DOMAIN inventory : CallOf(inventory[j], clock) # "nothing"}}

CallsIssued == {calls[c] : c \in 1..Len(calls)}

\* C13: with the clock standing still, the set of calls an invocation has
\* issued when it ends does not depend on the order of the list: it is the
\* set of the calls that the instances call for one by one.
C13_OrderIsIrrelevant ==
    (Ended /\ ticks = 0) => CallsIssued = CallsOneByOne

SameTags(j, k) ==
    /\ instances[j].start_tag = instances[k].start_tag
    /\ instances[j].stop_tag = instances[k].stop_tag

\* C17: two instances of one invocation that carry the same start tag and the
\* same stop tag get the same desired state, also when the clock passes a
\* schedule boundary while the loop runs.
C17_OneInstantPerBatch ==
    \A j, k \in 1..Len(outcome) :
        SameTags(j, k) => outcome[j].desired = outcome[k].desired

(***************************************************************************)
(* Properties of invocation after invocation (SpecTicks).  outcome and     *)
(* calls hold what all the invocations so far did, in order.               *)
(***************************************************************************)
\* the loop passes that found the observed state to be the desired state
InDesiredState(k) ==
    /\ outcome[k].current \in {"running", "stopped"}
    /\ outcome[k].desired = Return(outcome[k].current)

CallingPasses == {k \in 1..Len(outcome) : outcome[k].action \in {"start", "stop"}}

\* C12: a loop pass that finds an instance observed running with desired
\* running, or observed stopped with desired stopped, issues no actuator
\* call, in the first invocation and in every later one: each call of the
\* history comes from a pass whose observed state was not the desired state.
C12_ReconcilerIsIdempotent ==
    /\ \A k \in 1..Len(outcome) : InDesiredState(k) => outcome[k].action = "nothing"
    /\ Len(calls) = Cardinality(CallingPasses)

\* C12's case: an instance was started, then found running with desired
\* running in two later invocations
C12_Witness ==
    \E i, j, k \in 1..Len(outcome) :
        /\ i < j /\ j < k
        /\ outcome[i].id = outcome[j].id /\ outcome[j].id = outcome[k].id
        /\ outcome[i].action = "start"
        /\ InDesiredState(j) /\ outcome[j].current = "running"
        /\ InDesiredState(k) /\ outcome[k].current = "running"
        /\ Len(calls) = 1

(***************************************************************************)
(* Properties of get_desired_state (SpecEval).  The segments, the weekday  *)
(* and the time of day are read off the inputs again, by arithmetic.       *)
(***************************************************************************)
Evaluated == result # NotRun

BothTags == start_time # None /\ stop_time # None
SameTimezone ==
    START_TAG_KEY(start_time.Key).timezone = STOP_TAG_KEY(stop_time.Key).timezone
SevenSegments(tag) == Len(split(tag.Value, "|")) = 7
ValidShape ==
    BothTags /\ SameTimezone /\ SevenSegments(start_time) /\ SevenSegments(stop_time)

Trimmed(seg) == lower(strip(seg))

\* HHhMM on the 24-hour clock
IsClockTime(s) ==
    /\ Len(s) = 5
    /\ s[3] = "h"
    /\ {s[1], s[2], s[4], s[5]} \subseteq DigitChars
    /\ 10 * DigitValue(s[1]) + DigitValue(s[2]) <= 23
    /\ 10 * DigitValue(s[4]) + DigitValue(s[5]) <= 59

ClockSeconds(s) ==
    (10 * DigitValue(s[1]) + DigitValue(s[2])) * Hour
        + (10 * DigitValue(s[4]) + DigitValue(s[5])) * Minute

IsNoSchedule(s) == s \in {n_a, <<>>}

WellFormedSegment(seg) ==
    Trimmed(seg) \in {running, stopped, n_a, <<>>} \/ IsClockTime(Trimmed(seg))

WellFormedValue(value) ==
    LET parts == split(value, "|")
    IN Len(parts) = 7 /\ \A i \in 1..7 : WellFormedSegment(parts[i])

WellFormedPair ==
    /\ BothTags
    /\ SameTimezone
    /\ WellFormedValue(start_time.Value)
    /\ WellFormedValue(stop_time.Value)

\* the local time of the evaluation, its weekday (0 is Sunday) and second of day
LocalNow == utc_now + UtcOffset(START_TAG_KEY(start_time.Key).timezone)
LocalWeekday == (LocalNow \div Day) % 7
UtcWeekday == (utc_now \div Day) % 7
SecondOfDay == LocalNow % Day

SegmentOn(tag, weekday) == Trimmed(split(tag.Value, "|")[weekday + 1])
TodaysStart == SegmentOn(start_time, LocalWeekday)
TodaysStop == SegmentOn(stop_time, LocalWeekday)

\* C4: for a start/stop pair of 7 well-formed segments each under keys of one
\* timezone, get_desired_state returns running, stopped or none and does not
\* raise, at every instant.  (Written result-first: the pair is read only
\* when the result is not one of the three.)
C4_WellFormedPairIsDecided ==
    Evaluated =>
        \/ result.kind = "return" /\ result.value \in DesiredStates
        \/ ~WellFormedPair

C4_Witness ==
    /\ Evaluated
    /\ WellFormedPair
    /\ IsClockTime(TodaysStart)
    /\ IsNoSchedule(TodaysStop)
    /\ result = Return("none")

\* C5: get_desired_state raises ValueError whenever a tag value has not 7
\* segments or the two keys name different timezones, whatever the segments
\* hold.
C5_BadShapeFailsValidation ==
    Evaluated =>
        \/ result = Raise("ValueError")
        \/ ~FailsValidation(start_time, stop_time)

\* C5's case: 8 segments that all say running, under keys of one timezone
C5_Witness ==
    /\ Evaluated
    /\ BothTags
    /\ SameTimezone
    /\ split(start_time.Value, "|") = Repeat(running, 8)
    /\ SevenSegments(stop_time)
    /\ result = Raise("ValueError")

\* C6: if today's segment on either side is the literal running the result is
\* running; otherwise if either is the literal stopped the result is stopped.
C6_LiteralPrecedence ==
    (Evaluated /\ ValidShape) =>
        /\ (TodaysStart = running \/ TodaysStop = running)
              => result = Return("running")
        /\ ( /\ TodaysStart # running
             /\ TodaysStop # running
             /\ (TodaysStart = stopped \/ TodaysStop = stopped) )
              => result = Return("stopped")

\* C6's case: stopped on the start side against running on the stop side
C6_Witness ==
    /\ Evaluated
    /\ ValidShape
    /\ TodaysStart = stopped
    /\ TodaysStop = running
    /\ result = Return("running")

\* C7: when today's segments are both clock times the result is running
\* exactly when start <= local time <= stop, and stopped otherwise; for 09h00
\* to 17h00: 09h00 and 17h00 give running, 08h59 and 17h01 give stopped.
C7_InclusiveWindow ==
    (Evaluated /\ ValidShape /\ IsClockTime(TodaysStart) /\ IsClockTime(TodaysStop)) =>
        /\ result = Return(IF /\ ClockSeconds(TodaysStart) <= SecondOfDay
                              /\ SecondOfDay <= ClockSeconds(TodaysStop)
                           THEN "running" ELSE "stopped")
        /\ (TodaysStart = Seg_0900 /\ TodaysStop = Seg_1700) =>
              /\ SecondOfDay \in {9 * Hour, 17 * Hour} => result = Return("running")
              /\ SecondOfDay \in {8 * Hour + 59 * Minute, 17 * Hour + Minute}
                    => result = Return("stopped")

\* C7's case: 09h00 to 17h00 at 17h00 sharp
C7_Witness ==
    /\ Evaluated
    /\ ValidShape
    /\ TodaysStart = Seg_0900
    /\ TodaysStop = Seg_1700
    /\ SecondOfDay = 17 * Hour
    /\ result = Return("running")

\* C8: with no schedule for the start today and a clock time for the stop, the
\* result is stopped from the stop time on and none before it; with no
\* schedule for the stop and a clock time for the start, running from the
\* start time on and none before it.
C8_OneSidedSchedule ==
    (Evaluated /\ ValidShape) =>
        /\ (IsNoSchedule(TodaysStart) /\ IsClockTime(TodaysStop)) =>
              result = Return(IF SecondOfDay >= ClockSeconds(TodaysStop)
                              THEN "stopped" ELSE "none")
        /\ (IsClockTime(TodaysStart) /\ IsNoSchedule(TodaysStop)) =>
              result = Return(IF SecondOfDay >= ClockSeconds(TodaysStart)
                              THEN "running" ELSE "none")

\* C8's case: start n/a, stop 17h00, at 18h00
C8_Witness ==
    /\ Evaluated
    /\ ValidShape
    /\ TodaysStart = n_a
    /\ TodaysStop = Seg_1700
    /\ SecondOfDay = 18 * Hour
    /\ result = Return("stopped")

\* C9: the segments that decide are those of the weekday of the local time,
\* counted from Sunday = 0: the result is what lines 80-113 make of them.
C9_LocalWeekdaySegment ==
    (Evaluated /\ ValidShape) =>
        result = DecideState(TodaysStart, TodaysStop, LocalNow)

\* C9's case: the local date is not the UTC date, and the segments of the UTC
\* weekday would have given another state
C9_Witness ==
    /\ Evaluated
    /\ ValidShape
    /\ LocalWeekday # UtcWeekday
    /\ result.kind = "return"
    /\ DecideState(SegmentOn(start_time, UtcWeekday),
                   SegmentOn(stop_time, UtcWeekday), LocalNow) # result

\* instance.state['Name']: the states EC2 reports
ObservedStates ==
    {"pending", "running", "shutting-down", "terminated", "stopping", "stopped"}

\* C15: when today's start and stop segments are clock times and the start is
\* later than the stop, the result is stopped at every instant of the local
\* day; the reconciler then stops a running instance and does not start a
\* stopped one.
C15_OvernightNeverRuns ==
    ( /\ Evaluated
      /\ ValidShape
      /\ IsClockTime(TodaysStart)
      /\ IsClockTime(TodaysStop)
      /\ ClockSeconds(TodaysStart) > ClockSeconds(TodaysStop) ) =>
        /\ result = Return("stopped")
        /\ Reconcile("running", result.value) = "stop"
        /\ Reconcile("stopped", result.value) = "nothing"

\* C15's case: start 17h00, stop 09h00, at 18h00 local time
C15_Witness ==
    /\ Evaluated
    /\ ValidShape
    /\ TodaysStart = Seg_1700
    /\ TodaysStop = Seg_0900
    /\ SecondOfDay = 18 * Hour
    /\ result = Return("stopped")

\* C16: with no schedule for the start today and a clock time for the stop,
\* the result is stopped or none and no observed state makes the reconciler
\* issue start; with no schedule for the stop and a clock time for the start,
\* the result is running or none and no observed state makes it issue stop.
C16_OneSidedOneDirection ==
    (Evaluated /\ ValidShape) =>
        /\ (IsNoSchedule(TodaysStart) /\ IsClockTime(TodaysStop)) =>
              /\ result \in {Return("stopped"), Return("none")}
              /\ \A observed \in ObservedStates :
                    Reconcile(observed, result.value) # "start"
        /\ (IsClockTime(TodaysStart) /\ IsNoSchedule(TodaysStop)) =>
              /\ result \in {Return("running"), Return("none")}
              /\ \A observed \in ObservedStates :
                    Reconcile(observed, result.value) # "stop"

\* C16's case: start n/a, stop 17h00, at 16h00 local time, before the stop
C16_Witness ==
    /\ Evaluated
    /\ ValidShape
    /\ TodaysStart = n_a
    /\ TodaysStop = Seg_1700
    /\ SecondOfDay = 16 * Hour
    /\ result = Return("none")

====
